---- MODULE Spec2Model ----
(***************************************************************************)
(* VIZZIO ChatBot (packages/vizzio-chatbot/chatbot.py): the in-memory      *)
(* message log, the list of active WebSocket connections, the per-         *)
(* connection session coroutine, the broadcast pass, the keyword responder *)
(* and the HTTP routes that ingest a build notification and query the log. *)
(*                                                                         *)
(* Scheduling: asyncio runs one coroutine at a time and switches only at   *)
(* an await.  Every action below is the code a task runs from one await to *)
(* the next, so the actions interleave exactly at the awaits of the source:*)
(* accept (52), receive_text (58), send_json (91) and asyncio.sleep (79).  *)
(* A send_json writes the frame (or raises) and then may yield, so the     *)
(* outcome of a send is decided when the iteration reaches the connection  *)
(* and other tasks run between two iterations of the loop at line 89.      *)
(*                                                                         *)
(* Texts are sequences of one-character strings; a reply template or a     *)
(* formatted field is one token of such a sequence.  The timestamp field   *)
(* of an entry is a wall-clock reading that no operation reads back and is *)
(* left out; uuid4 identifiers are modelled by the entry's position, which *)
(* is fresh because the log only grows.  A "send-message" frame carries a   *)
(* string content or none (the shape of the interface); whether a content  *)
(* of another JSON type is coerced or rejected by ChatMessage depends on    *)
(* the installed pydantic and is not modelled.  A channel is closed by its  *)
(* peer, or by the server when the session coroutine ends with an          *)
(* exception; a send on a closed channel raises.                           *)
(***************************************************************************)
EXTENDS Integers, Sequences, FiniteSets, TLC

\* ------------------------------------------------------------------ bounds
NumConns == 2    \* WebSocket clients that ever connect
NumReqs == 1     \* POST /api/chat/notify requests that ever arrive
MaxEntries == 4  \* entries the log ever holds
MaxLog == 3      \* longest log drawn for the query specification
MaxLimit == 4    \* largest limit passed to the recent-messages query
MaxWords == 2    \* most words in a text given to the responder

Conns == 1..NumConns
Reqs == (NumConns + 1)..(NumConns + NumReqs)
Tasks == Conns \cup Reqs

Max(a, b) == IF a >= b THEN a ELSE b
Min(a, b) == IF a <= b THEN a ELSE b

\* ------------------------------------------------------------------- texts
T_build == <<"b", "u", "i", "l", "d">>
T_Fail == <<"F", "a", "i", "l">>
T_hi == <<"h", "i">>
T_empty == <<>>

\* Contents a client puts in a "send-message" frame.
Contents == {T_build}

LowerChar(ch) ==
  CASE ch = "A" -> "a" [] ch = "B" -> "b" [] ch = "C" -> "c" [] ch = "D" -> "d"
    [] ch = "E" -> "e" [] ch = "F" -> "f" [] ch = "G" -> "g" [] ch = "H" -> "h"
    [] ch = "I" -> "i" [] ch = "J" -> "j" [] ch = "K" -> "k" [] ch = "L" -> "l"
    [] ch = "M" -> "m" [] ch = "N" -> "n" [] ch = "O" -> "o" [] ch = "P" -> "p"
    [] ch = "Q" -> "q" [] ch = "R" -> "r" [] ch = "S" -> "s" [] ch = "T" -> "t"
    [] ch = "U" -> "u" [] ch = "V" -> "v" [] ch = "W" -> "w" [] ch = "X" -> "x"
    [] ch = "Y" -> "y" [] ch = "Z" -> "z" [] OTHER -> ch

\* str.lower()
Lower(text) == [i \in 1..Len(text) |-> LowerChar(text[i])]

\* pat in text
Contains(text, pat) ==
  \E i \in 1..(Len(text) - Len(pat) + 1) : SubSeq(text, i, i + Len(pat) - 1) = pat

K_build == <<"b", "u", "i", "l", "d">>
K_status == <<"s", "t", "a", "t", "u", "s">>
K_erro == <<"e", "r", "r", "o">>
K_fail == <<"f", "a", "i", "l">>
K_sucesso == <<"s", "u", "c", "e", "s", "s", "o">>
K_success == <<"s", "u", "c", "c", "e", "s", "s">>
K_help == <<"h", "e", "l", "p">>
K_ajuda == <<"a", "j", "u", "d", "a">>
K_qmark == <<"?">>

\* As ResponseBranch, with the tests of lines 106 and 121 in the other order.
ResponseBranchErroFirst(user_message) ==
  LET msg_lower == Lower(user_message) IN
  IF Contains(msg_lower, K_erro) \/ Contains(msg_lower, K_fail) THEN 2
  ELSE IF Contains(msg_lower, K_build) \/ Contains(msg_lower, K_status) THEN 1
  ELSE IF Contains(msg_lower, K_sucesso) \/ Contains(msg_lower, K_success) THEN 3
  ELSE IF Contains(msg_lower, K_help) \/ Contains(msg_lower, K_ajuda)
          \/ Contains(user_message, K_qmark) THEN 4
  ELSE 5

\* The branch of handle_bot_response taken for user_message, 1..5.
ResponseBranch(user_message) ==
  LET msg_lower == Lower(user_message) IN
  IF Contains(msg_lower, K_build) \/ Contains(msg_lower, K_status) THEN 1
  ELSE IF Contains(msg_lower, K_erro) \/ Contains(msg_lower, K_fail) THEN 2
  ELSE IF Contains(msg_lower, K_sucesso) \/ Contains(msg_lower, K_success) THEN 3
  ELSE IF Contains(msg_lower, K_help) \/ Contains(msg_lower, K_ajuda)
          \/ Contains(user_message, K_qmark) THEN 4
  ELSE 5

\* msg_type of the branch.
BranchType(b) ==
  CASE b = 1 -> "notification" [] b = 2 -> "alert" [] b = 3 -> "success"
    [] b = 4 -> "text" [] OTHER -> "text"

\* response of the branch: the template, one token.
BranchResponse(b) ==
  CASE b = 1 -> <<"template:status">> [] b = 2 -> <<"template:errors">>
    [] b = 3 -> <<"template:success">> [] b = 4 -> <<"template:help">>
    [] OTHER -> <<"template:default">>

\* ----------------------------------------------------------------- entries
\* class ChatMessage; metadata is a set holding the mapping, empty for None.
ChatMessage(id, sender, content, read, status, type, metadata) ==
  [id |-> id, sender |-> sender, content |-> content, read |-> read,
   status |-> status, type |-> type, metadata |-> metadata]

DefaultStatus == "sent"
NoMetadata == {}

\* user_msg of websocket_endpoint
UserMsg(id, content) ==
  ChatMessage(id, "user", content, TRUE, DefaultStatus, "text", NoMetadata)

\* bot_msg of handle_bot_response
BotMsg(id, user_message) ==
  LET b == ResponseBranch(user_message) IN
  ChatMessage(id, "bot", BranchResponse(b), FALSE, "delivered", BranchType(b),
              NoMetadata)

\* ----------------------------------------------------------- notifications
StatusEmoji(status) ==
  CASE status = "success" -> "emoji:check" [] status = "failure" -> "emoji:cross"
    [] status = "running" -> "emoji:cycle" [] status = "cancelled" -> "emoji:warn"
    [] OTHER -> "emoji:megaphone"

StatusUpper(status) ==
  CASE status = "success" -> "SUCCESS" [] status = "failure" -> "FAILURE"
    [] status = "running" -> "RUNNING" [] status = "cancelled" -> "CANCELLED"
    [] OTHER -> "UNKNOWN"

\* As NotifyType, with "cancelled" in the table of line 209 as an alert.
NotifyTypeCancelledAlert(status) ==
  CASE status = "failure" -> "alert" [] status = "success" -> "success"
    [] status = "cancelled" -> "alert" [] OTHER -> "notification"

NotifyType(status) ==
  CASE status = "failure" -> "alert" [] status = "success" -> "success"
    [] OTHER -> "notification"

\* details.get(key, default); details is a function on the keys it holds.
DetailGet(details, key, default) ==
  IF key \in DOMAIN details THEN details[key] ELSE default

NotifyContent(n) ==
  <<StatusEmoji(n.status), n.workflow, StatusUpper(n.status), n.buildId,
    DetailGet(n.details, "duration", "N/A"),
    DetailGet(n.details, "testsPassed", "0"),
    DetailGet(n.details, "testsRun", "0"),
    DetailGet(n.details, "coverage", "0")>>

\* bot_msg of notify_build
NotifyMsg(id, n) ==
  ChatMessage(id, "bot", NotifyContent(n), FALSE, "delivered", NotifyType(n.status),
              {[buildId |-> n.buildId, workflow |-> n.workflow]})

FullDetails ==
  [k \in {"duration", "testsPassed", "testsRun", "coverage"} |->
     CASE k = "duration" -> "135" [] k = "testsPassed" -> "50"
       [] k = "testsRun" -> "50" [] OTHER -> "85"]
NoDetails == [k \in {} |-> "0"]

Notification(buildId, workflow, status, details) ==
  [buildId |-> buildId, workflow |-> workflow, status |-> status, details |-> details]

\* The notifications posted while sessions run.
Notifications == {Notification("42", "CI", "failure", NoDetails)}

\* ------------------------------------------------------------------ frames
\* A text frame as json.loads sees it: not JSON, JSON that is not an object,
\* or an object with the keys in has.
Frame(json, has, type, content) ==
  [json |-> json, has |-> has, type |-> type, content |-> content]

InvalidFrame == Frame("invalid", {}, "", T_empty)
ArrayFrame == Frame("array", {}, "", T_empty)
UntypedFrame == Frame("object", {}, "", T_empty)
PingFrame == Frame("object", {"type"}, "ping", T_empty)
SendFrame(content) == Frame("object", {"type", "content"}, "send-message", content)
BareSendFrame == Frame("object", {"type"}, "send-message", T_empty)

\* json.loads raises JSONDecodeError
JsonLoadsRaises(frame) == frame.json = "invalid"
\* message_data.get raises AttributeError: a list, number or string has no get
GetRaises(frame) == frame.json # "object"
\* message_data.get("type"), None when absent
FrameType(frame) == IF "type" \in frame.has THEN frame.type ELSE "None"
\* message_data.get("content", "")
FrameContent(frame) == IF "content" \in frame.has THEN frame.content ELSE T_empty

SendFrames == {SendFrame(t) : t \in Contents} \cup {BareSendFrame}
OtherFrames == {UntypedFrame, PingFrame}

\* ------------------------------------------------------------------- lists
Has(list, x) == \E i \in 1..Len(list) : list[i] = x

\* list.remove(x) for x in list: drops the first occurrence
Remove(list, x) ==
  LET i == CHOOSE j \in 1..Len(list) :
             list[j] = x /\ \A k \in 1..(j - 1) : list[k] # x
  IN SubSeq(list, 1, i - 1) \o SubSeq(list, i + 1, Len(list))

Range(list) == {list[i] : i \in 1..Len(list)}

\* As ListAppend, with list.insert(0, x).
ListInsertFront(list, x) == <<x>> \o list

\* list.append(x)
ListAppend(list, x) == Append(list, x)

\* list[start:] of Python, start of either sign
SliceFrom(list, start) ==
  LET n == Len(list)
      lo == IF start < 0 THEN Max(n + start, 0) ELSE Min(start, n)
  IN SubSeq(list, lo + 1, n)

\* ------------------------------------------------------------------- state
VARIABLES
  messages,            \* the log
  active_connections,  \* the registry, a list
  pc,                  \* where each task is suspended, or how it ended
  exc,                 \* the exception a task raised, "none" otherwise
  chan,                \* each channel: "open", "peer_closed" or "server_closed"
  content,             \* local variable content of each session
  pass,                \* the broadcast pass of each task
  inbox,               \* the entry ids each client was sent, in order
  origin,              \* history: for each entry id, the task that appended it,
                       \* the user entry it replies to and the registry at that time
  reply                \* the last reply of a query route

vars ==
  <<messages, active_connections, pc, exc, chan, content, pass, inbox, origin, reply>>

\* A pass: the index of the list iterator, the list disconnected and the id of
\* the entry it carries.
NoPass == [idx |-> 0, disconnected |-> <<>>, msg |-> 0]
NoReply == [route |-> "none", limit |-> 0, body |-> <<>>, unread |-> 0]

Init ==
  /\ messages = <<>>
  /\ active_connections = <<>>
  /\ pc = [t \in Tasks |-> IF t \in Conns THEN "connecting" ELSE "pending"]
  /\ exc = [t \in Tasks |-> "none"]
  /\ chan = [c \in Conns |-> "open"]
  /\ content = [c \in Conns |-> T_empty]
  /\ pass = [t \in Tasks |-> NoPass]
  /\ inbox = [c \in Conns |-> <<>>]
  /\ origin = <<>>
  /\ reply = NoReply

\* The channel of connection k is open at both ends.
Alive(k) == chan[k] = "open"

\* --------------------------------------------------------------- event loop
\* As Releases, with the delay of line 79 a blocking time.sleep.
ReleasesButSleep(label) ==
  label \in {"connecting", "recv", "bcast_user", "bcast_bot",
             "pending", "bcast_notify", "returned", "raised"}

\* A task suspended at one of these places has handed the event loop back:
\* every place a task of this program waits at is an await (accept, receive_text,
\* send_json, asyncio.sleep), and a task that has not started or has ended holds
\* nothing.
Releases(label) ==
  label \in {"connecting", "recv", "bcast_user", "sleep", "bcast_bot",
             "pending", "bcast_notify", "returned", "raised"}

\* Task t can be resumed: no other task is running.
LoopFree(t) == \A u \in Tasks \ {t} : Releases(pc[u])

\* --------------------------------------------------------------- broadcast
\* connection.send_json succeeds on an open channel and raises on a closed one
SendOk(conn) == Alive(conn)

\* The channels open after task t left its coroutine with an exception: the
\* server closes the channel of a session whose coroutine raised.
Aborted(t) ==
  [k \in Conns |-> IF k = t /\ Alive(k) THEN "server_closed" ELSE chan[k]]

\* for conn in disconnected: active_connections.remove(conn); remove raises
\* ValueError when conn is not in the list, which ends the loop where it stands.
RECURSIVE PruneLoop(_, _)
PruneLoop(connections, disconnected) ==
  IF disconnected = <<>> THEN [ac |-> connections, raised |-> FALSE]
  ELSE IF Has(connections, Head(disconnected))
       THEN PruneLoop(Remove(connections, Head(disconnected)), Tail(disconnected))
       ELSE [ac |-> connections, raised |-> TRUE]

\* One resumption of broadcast with pass state p: the list iterator of line 89
\* reads the list as it is now at its index; either there is a connection there,
\* which is sent the frame (and collected when the send raises), or the loop is
\* over and the pruning loop runs to its end without suspending.
BroadcastStep(connections, p) ==
  IF p.idx < Len(connections)
  THEN LET conn == connections[p.idx + 1] IN
       IF SendOk(conn)
       THEN [state |-> "sending", ac |-> connections, to |-> {conn},
             pass |-> [p EXCEPT !.idx = @ + 1]]
       ELSE [state |-> "sending", ac |-> connections, to |-> {},
             pass |-> [p EXCEPT !.idx = @ + 1,
                                !.disconnected = Append(@, conn)]]
  ELSE LET r == PruneLoop(connections, p.disconnected) IN
       [state |-> IF r.raised THEN "raised" ELSE "done", ac |-> r.ac, to |-> {},
        pass |-> NoPass]

\* broadcast(message) up to its first suspension
BroadcastStart(connections, id) ==
  BroadcastStep(connections, [idx |-> 0, disconnected |-> <<>>, msg |-> id])

\* The state after step b of task t's pass carrying entry id: still in the pass
\* (at label during), past it (the caller goes on to label after), or out of the
\* task with the ValueError of the pruning loop.
Broadcasting(t, b, id, during, after) ==
  /\ active_connections' = b.ac
  /\ inbox' = [k \in Conns |-> IF k \in b.to THEN Append(inbox[k], id) ELSE inbox[k]]
  /\ pass' = [pass EXCEPT ![t] = b.pass]
  /\ pc' = [pc EXCEPT ![t] = CASE b.state = "sending" -> during
                               [] b.state = "done" -> after
                               [] OTHER -> "raised"]
  /\ exc' = [exc EXCEPT ![t] = IF b.state = "raised" THEN "ValueError" ELSE @]
  /\ chan' = IF b.state = "raised" THEN Aborted(t) ELSE chan

\* History of an entry appended now by task t in reply to entry re (0: to none).
Origin(t, re) == [by |-> t, re |-> re, aud |-> Range(active_connections)]

\* History: the id of the latest user entry session c appended.
LastUserOf(c) ==
  LET mine == {i \in 1..Len(origin) : origin[i].by = c /\ origin[i].re = 0} IN
  CHOOSE i \in mine : \A j \in mine : j <= i

\* The replies the sessions past a user entry have still to append.
Owed == Cardinality({c \in Conns : pc[c] \in {"bcast_user", "sleep"}})

\* ----------------------------------------------------------------- sessions
\* As Connect, with the append of line 53 made before the accept of line 52 as
\* well as after it.
ConnectTwice(c) ==
  /\ pc[c] = "connecting"
  /\ LoopFree(c)
  /\ active_connections' = ListAppend(ListAppend(active_connections, c), c)
  /\ pc' = [pc EXCEPT ![c] = "recv"]
  /\ UNCHANGED <<messages, exc, chan, content, pass, inbox, origin, reply>>

\* As Connect, with active_connections.insert(0, websocket).
ConnectFront(c) ==
  /\ pc[c] = "connecting"
  /\ LoopFree(c)
  /\ active_connections' = <<c>> \o active_connections
  /\ pc' = [pc EXCEPT ![c] = "recv"]
  /\ UNCHANGED <<messages, exc, chan, content, pass, inbox, origin, reply>>

\* lines 52-53: the handshake is accepted and the connection registered
Connect(c) ==
  /\ pc[c] = "connecting"
  /\ LoopFree(c)
  /\ active_connections' = ListAppend(active_connections, c)
  /\ pc' = [pc EXCEPT ![c] = "recv"]
  /\ UNCHANGED <<messages, exc, chan, content, pass, inbox, origin, reply>>

\* The peer closes the channel (or the transport fails).
ClientClose(c) ==
  /\ pc[c] # "connecting"
  /\ Alive(c)
  /\ chan' = [chan EXCEPT ![c] = "peer_closed"]
  /\ UNCHANGED <<messages, active_connections, pc, exc, content, pass, inbox, origin,
                 reply>>

\* lines 58-59: a frame that is not JSON; json.loads raises JSONDecodeError, which
\* the handler of line 82 does not catch
RecvMalformed(c) ==
  /\ pc[c] = "recv"
  /\ Alive(c)
  /\ LoopFree(c)
  /\ JsonLoadsRaises(InvalidFrame)
  /\ pc' = [pc EXCEPT ![c] = "raised"]
  /\ exc' = [exc EXCEPT ![c] = "JSONDecodeError"]
  /\ chan' = Aborted(c)
  /\ UNCHANGED <<messages, active_connections, content, pass, inbox, origin, reply>>

\* lines 58-61: JSON that is not an object; message_data.get raises AttributeError
RecvNotObject(c) ==
  /\ pc[c] = "recv"
  /\ Alive(c)
  /\ LoopFree(c)
  /\ ~JsonLoadsRaises(ArrayFrame)
  /\ GetRaises(ArrayFrame)
  /\ pc' = [pc EXCEPT ![c] = "raised"]
  /\ exc' = [exc EXCEPT ![c] = "AttributeError"]
  /\ chan' = Aborted(c)
  /\ UNCHANGED <<messages, active_connections, content, pass, inbox, origin, reply>>

\* As RecvOther, with message_data["type"] for message_data.get("type"): an
\* object without the key raises KeyError.
RecvOtherSubscript(c, frame) ==
  /\ pc[c] = "recv"
  /\ Alive(c)
  /\ LoopFree(c)
  /\ ~JsonLoadsRaises(frame) /\ ~GetRaises(frame)
  /\ FrameType(frame) # "send-message"
  /\ IF "type" \in frame.has
     THEN UNCHANGED vars
     ELSE /\ pc' = [pc EXCEPT ![c] = "raised"]
          /\ exc' = [exc EXCEPT ![c] = "KeyError"]
          /\ chan' = Aborted(c)
          /\ UNCHANGED <<messages, active_connections, content, pass, inbox, origin,
                         reply>>

\* lines 58-61: an object whose type is not "send-message"; back to receive_text
RecvOther(c, frame) ==
  /\ pc[c] = "recv"
  /\ Alive(c)
  /\ LoopFree(c)
  /\ ~JsonLoadsRaises(frame) /\ ~GetRaises(frame)
  /\ FrameType(frame) # "send-message"
  /\ UNCHANGED vars

\* lines 58-76: a "send-message" frame; the user entry is appended and its
\* broadcast runs up to its first suspension
RecvSendMessage(c, frame) ==
  /\ pc[c] = "recv"
  /\ Alive(c)
  /\ LoopFree(c)
  /\ Len(messages) + Owed + 2 <= MaxEntries
  /\ ~JsonLoadsRaises(frame) /\ ~GetRaises(frame)
  /\ FrameType(frame) = "send-message"
  /\ LET user_msg == UserMsg(Len(messages) + 1, FrameContent(frame)) IN
     /\ content' = [content EXCEPT ![c] = FrameContent(frame)]
     /\ messages' = ListAppend(messages, user_msg)
     /\ origin' = Append(origin, Origin(c, 0))
     /\ Broadcasting(c, BroadcastStart(active_connections, user_msg.id),
                     user_msg.id, "bcast_user", "sleep")
  /\ UNCHANGED reply

\* lines 79-80, 174-185: the delay is over; handle_bot_response appends the reply
\* and its broadcast runs up to its first suspension
BotRespond(c) ==
  /\ pc[c] = "sleep"
  /\ LoopFree(c)
  /\ LET bot_msg == BotMsg(Len(messages) + 1, content[c]) IN
     /\ messages' = ListAppend(messages, bot_msg)
     /\ origin' = Append(origin, Origin(c, LastUserOf(c)))
     /\ Broadcasting(c, BroadcastStart(active_connections, bot_msg.id),
                     bot_msg.id, "bcast_bot", "recv")
  \* content is not read again before line 62 assigns it
  /\ content' = [content EXCEPT ![c] = T_empty]
  /\ UNCHANGED reply

\* As BroadcastResume, with lines 79-80 not awaited by the session: after the
\* pass of its user entry the session is back at receive_text.
BroadcastResumeNoReply(t) ==
  /\ pc[t] \in {"bcast_user", "bcast_bot", "bcast_notify"}
  /\ LoopFree(t)
  /\ Broadcasting(t, BroadcastStep(active_connections, pass[t]), pass[t].msg, pc[t],
                  CASE pc[t] = "bcast_user" -> "recv"
                    [] pc[t] = "bcast_bot" -> "recv"
                    [] OTHER -> "returned")
  /\ UNCHANGED <<messages, content, origin, reply>>

\* lines 89-96: a pass resumes after a send
BroadcastResume(t) ==
  /\ pc[t] \in {"bcast_user", "bcast_bot", "bcast_notify"}
  /\ LoopFree(t)
  /\ Broadcasting(t, BroadcastStep(active_connections, pass[t]), pass[t].msg, pc[t],
                  CASE pc[t] = "bcast_user" -> "sleep"
                    [] pc[t] = "bcast_bot" -> "recv"
                    [] OTHER -> "returned")
  /\ UNCHANGED <<messages, content, origin, reply>>

\* lines 58, 82-84: receive_text raises WebSocketDisconnect; the handler removes
\* the connection, and list.remove raises ValueError when it is not in the list
RecvDisconnect(c) ==
  /\ pc[c] = "recv"
  /\ ~Alive(c)
  /\ LoopFree(c)
  /\ IF Has(active_connections, c)
     THEN /\ active_connections' = Remove(active_connections, c)
          /\ pc' = [pc EXCEPT ![c] = "returned"]
          /\ exc' = exc
     ELSE /\ active_connections' = active_connections
          /\ pc' = [pc EXCEPT ![c] = "raised"]
          /\ exc' = [exc EXCEPT ![c] = "ValueError"]
  /\ UNCHANGED <<messages, chan, content, pass, inbox, origin, reply>>

\* ------------------------------------------------------------------ routes
\* lines 191-229: POST /api/chat/notify up to the first suspension of its pass
NotifyBuild(r, n) ==
  /\ pc[r] = "pending"
  /\ LoopFree(r)
  /\ Len(messages) + Owed + 1 <= MaxEntries
  /\ LET bot_msg == NotifyMsg(Len(messages) + 1, n) IN
     /\ messages' = ListAppend(messages, bot_msg)
     /\ origin' = Append(origin, Origin(r, 0))
     /\ Broadcasting(r, BroadcastStart(active_connections, bot_msg.id),
                     bot_msg.id, "bcast_notify", "returned")
  /\ UNCHANGED <<content, reply>>

Next ==
  \/ \E c \in Conns : Connect(c)
  \/ \E c \in Conns : ClientClose(c)
  \/ \E c \in Conns : RecvMalformed(c)
  \/ \E c \in Conns : RecvNotObject(c)
  \/ \E c \in Conns, frame \in OtherFrames : RecvOther(c, frame)
  \/ \E c \in Conns, frame \in SendFrames : RecvSendMessage(c, frame)
  \/ \E c \in Conns : BotRespond(c)
  \/ \E t \in Tasks : BroadcastResume(t)
  \/ \E c \in Conns : RecvDisconnect(c)
  \/ \E r \in Reqs, n \in Notifications : NotifyBuild(r, n)

Spec == Init /\ [][Next]_vars

\* ----------------------------------------------------------------- queries
\* limit: int = 50
DefaultLimit == 50

\* lines 233-236: GET /api/chat/messages
get_messages(limit) == SliceFrom(messages, 0 - limit)

\* As get_unread, with the filter left out: every entry counts.
get_unread_all == Len(messages)

\* lines 238-242: GET /api/chat/unread
get_unread ==
  Cardinality({i \in 1..Len(messages) :
                 ~messages[i].read /\ messages[i].sender = "bot"})

GetMessages(limit) ==
  /\ reply' = [route |-> "messages", limit |-> limit, body |-> get_messages(limit),
               unread |-> 0]
  /\ UNCHANGED <<messages, active_connections, pc, exc, chan, content, pass, inbox,
                 origin>>

GetUnread ==
  /\ reply' = [route |-> "unread", limit |-> 0, body |-> <<>>, unread |-> get_unread]
  /\ UNCHANGED <<messages, active_connections, pc, exc, chan, content, pass, inbox,
                 origin>>

\* The entries that can come next in log: a user entry, a notification, or the
\* reply to a user entry that has none yet.
NextEntries(log) ==
  LET id == Len(log) + 1
      texts == Contents \cup {T_empty}
      users(b) == {i \in 1..Len(log) :
                     log[i].sender = "user" /\ ResponseBranch(log[i].content) = b}
      replies(b) == {i \in 1..Len(log) :
                       /\ log[i].sender = "bot" /\ log[i].metadata = NoMetadata
                       /\ log[i].content = BranchResponse(b)}
      owed == {t \in texts : Cardinality(users(ResponseBranch(t)))
                               > Cardinality(replies(ResponseBranch(t)))}
  IN {UserMsg(id, t) : t \in texts}
       \cup {NotifyMsg(id, n) : n \in Notifications}
       \cup {BotMsg(id, t) : t \in owed}

\* The logs of at most n entries that sessions and notifications can build.
RECURSIVE LogsUpTo(_)
LogsUpTo(n) ==
  IF n = 0 THEN {<<>>}
  ELSE LET shorter == LogsUpTo(n - 1) IN
       shorter \cup UNION {{Append(log, e) : e \in NextEntries(log)} : log \in shorter}

Limits == 0..MaxLimit \cup {DefaultLimit}

\* The query routes on any such log; they read nothing but the log.
InitQ ==
  /\ messages \in LogsUpTo(MaxLog)
  /\ active_connections = <<>>
  /\ pc = [t \in Tasks |-> IF t \in Conns THEN "connecting" ELSE "pending"]
  /\ exc = [t \in Tasks |-> "none"]
  /\ chan = [c \in Conns |-> "open"]
  /\ content = [c \in Conns |-> T_empty]
  /\ pass = [t \in Tasks |-> NoPass]
  /\ inbox = [c \in Conns |-> <<>>]
  /\ origin = <<>>
  /\ reply = NoReply

NextQ ==
  \/ \E limit \in Limits : GetMessages(limit)
  \/ GetUnread

SpecQ == InitQ /\ [][NextQ]_vars

\* --------------------------------------------------------------- responder
T_HELP == <<"H", "E", "L", "P">>
T_space == <<" ">>

\* The words of the texts given to the responder: every keyword, two of them in
\* capitals, and a word that is no keyword.
Words ==
  {K_build, K_status, K_erro, K_fail, K_sucesso, K_success, K_help, K_ajuda,
   K_qmark, T_hi, T_Fail, T_HELP}

\* The texts of at most n words, a space between two words.
RECURSIVE TextsUpTo(_)
TextsUpTo(n) ==
  IF n = 0 THEN {T_empty}
  ELSE LET shorter == TextsUpTo(n - 1) IN
       shorter \cup Words
         \cup {t \o T_space \o w : t \in shorter \ {T_empty}, w \in Words}

Texts == TextsUpTo(MaxWords)

\* Session 1 in the delay of line 79 after a "send-message" frame with any text
\* of Texts: its user entry is in the log and was sent to the registry, which
\* holds session 1 alone or with session 2, and the log begins with a
\* notification ingested before anyone connected, or does not.
InitR ==
  \E text \in Texts, others \in SUBSET (Conns \ {1}), before \in SUBSET Reqs :
    LET notes == [i \in 1..Cardinality(before) |->
                    NotifyMsg(i, CHOOSE n \in Notifications : TRUE)]
        uid == Len(notes) + 1
        reg == <<1>> \o (IF others = {} THEN <<>> ELSE <<2>>)
    IN /\ Cardinality(before) <= 1 /\ others \subseteq {2}
       /\ messages = notes \o <<UserMsg(uid, text)>>
       /\ active_connections = reg
       /\ pc = [t \in Tasks |-> IF t = 1 THEN "sleep"
                                ELSE IF t \in others THEN "recv"
                                ELSE IF t \in before THEN "returned"
                                ELSE IF t \in Conns THEN "connecting" ELSE "pending"]
       /\ exc = [t \in Tasks |-> "none"]
       /\ chan = [c \in Conns |-> "open"]
       /\ content = [c \in Conns |-> IF c = 1 THEN text ELSE T_empty]
       /\ pass = [t \in Tasks |-> NoPass]
       /\ inbox = [c \in Conns |-> IF c \in Range(reg) THEN <<uid>> ELSE <<>>]
       /\ origin = [i \in 1..Len(notes) |->
                      [by |-> CHOOSE r \in before : TRUE, re |-> 0, aud |-> {}]]
                    \o <<[by |-> 1, re |-> 0, aud |-> Range(reg)]>>
       /\ reply = NoReply

\* The delay ends, the responder appends its entry and the pass goes on.
NextR ==
  \/ \E c \in Conns : BotRespond(c)
  \/ \E t \in Tasks : BroadcastResume(t)

SpecR == InitR /\ [][NextR]_vars

\* ------------------------------------------------------------------ ingest
DurationOnly == [k \in {"duration"} |-> "135"]

\* The bodies posted to /api/chat/notify: every status of the emoji table and
\* one outside it, with all, some or none of the detail fields.
AllNotifications ==
  {Notification("42", workflow, status, details) :
     workflow \in {"CI", "Release"},
     status \in {"success", "failure", "running", "cancelled", "unknown"},
     details \in {FullDetails, DurationOnly, NoDetails}}

\* Clients connect and disconnect while any of these bodies is ingested.
NextN ==
  \/ \E c \in Conns : Connect(c)
  \/ \E c \in Conns : ClientClose(c)
  \/ \E c \in Conns : RecvDisconnect(c)
  \/ \E t \in Tasks : BroadcastResume(t)
  \/ \E r \in Reqs, n \in AllNotifications : NotifyBuild(r, n)

SpecN == Init /\ [][NextN]_vars

\* ------------------------------------------------------------------ claims
BcastLabels == {"bcast_user", "bcast_bot", "bcast_notify"}
Ended == {"returned", "raised"}

\* Task t's pass, suspended before this step, is over after it.
PassEnds(t) == pc[t] \in BcastLabels /\ pc'[t] \notin BcastLabels

\* Task t appends an entry in this step, and with it begins a pass.
PassBegins(t) ==
  /\ Len(messages') = Len(messages) + 1
  /\ origin'[Len(origin')].by = t

\* C1: a broadcast pass, whatever runs while it is suspended on a send, sends the
\* payload to every connection that was registered when it began and is still
\* registered and live when it ends; it ends without an error, having taken out of
\* the registry exactly the connections whose send failed; begun on an empty
\* registry it sends nothing and changes nothing.
C1_BroadcastDelivers ==
  [][\A t \in Tasks :
       /\ PassEnds(t) =>
            /\ \A k \in origin[pass[t].msg].aud :
                 (Has(active_connections, k) /\ Alive(k))
                   => Has(inbox[k], pass[t].msg)
            /\ pc'[t] # "raised"
            /\ Range(active_connections') =
                 Range(active_connections) \ Range(pass[t].disconnected)
       /\ (PassBegins(t) /\ active_connections = <<>>) =>
            /\ active_connections' = active_connections
            /\ inbox' = inbox
            /\ pc'[t] \notin BcastLabels \cup {"raised"}]_vars

\* C2: no path that removes a connection raises: neither the disconnect handler
\* of a session nor the pruning loop of a pass ever ends a task with the
\* ValueError of list.remove, and removing an absent connection leaves the
\* registry as it is.
C2_RemoveNeverRaises ==
  \A t \in Tasks : exc[t] # "ValueError"

\* C3: once the session function has returned or raised, its connection is not in
\* the registry.
C3_EndedSessionUnregistered ==
  \A c \in Conns : pc[c] \in Ended => ~Has(active_connections, c)

\* C4: a frame that is not JSON, or JSON that is not an object, or an object with
\* no type, is dropped: the session is back at receive_text and the log and the
\* registry are unchanged.
C4_MalformedFrameDropped ==
  [][\A c \in Conns :
       (RecvMalformed(c) \/ RecvNotObject(c) \/ RecvOther(c, UntypedFrame)) =>
         /\ pc'[c] = "recv"
         /\ messages' = messages
         /\ active_connections' = active_connections]_vars

\* The event loop resumes a task that is ready: a completed accept or send, the
\* expired delay, the disconnect of a closed channel.  Frames, closes and
\* notifications come from outside and are under no obligation.
Fairness ==
  /\ \A c \in Conns : WF_vars(Connect(c))
  /\ \A c \in Conns : WF_vars(BotRespond(c))
  /\ \A c \in Conns : WF_vars(RecvDisconnect(c))
  /\ \A t \in Tasks : WF_vars(BroadcastResume(t))

FairSpec == Spec /\ Fairness

\* C5: once the client of a connection has disconnected, the registry eventually
\* stops holding the connection for good.
C5_NoStaleEntry ==
  \A c \in Conns :
    (chan[c] = "peer_closed") ~> [](~Has(active_connections, c))

\* The position in the log of the entry with this id.
IdPos(id) == CHOOSE p \in 1..Len(messages) : messages[p].id = id

\* The ids of the entries appended in reply to user entry i.
RepliesTo(i) == {j \in 1..Len(origin) : origin[j].re = i}

\* Session c has appended user entry i and not yet replied to it.
Handling(c, i) == pc[c] \in {"bcast_user", "sleep"} /\ LastUserOf(c) = i

\* The pass carrying entry e is over.
PassOver(e) == \A t \in Tasks : pass[t].msg # e

\* Entry e reached every connection that was registered when it was appended and
\* is still registered and live.
Reached(e) ==
  \A k \in origin[e].aud :
    (Has(active_connections, k) /\ Alive(k)) => Has(inbox[k], e)

\* C6: a "send-message" frame with content c makes its session append the user
\* entry (sender user, read, kind text, content c) and, once the session is past
\* the delay, exactly one bot entry after it (sender bot, unread, delivered, kind
\* of the responder for c); each of the two is broadcast to the connections
\* registered when it was appended.
C6_UserThenBotEntry ==
  \A i \in 1..Len(origin) :
    (origin[i].by \in Conns /\ origin[i].re = 0) =>
      LET c == origin[i].by
          u == messages[IdPos(i)]
      IN /\ u.sender = "user" /\ u.read /\ u.type = "text"
         /\ PassOver(i) => Reached(i)
         /\ IF Handling(c, i) THEN RepliesTo(i) = {}
            ELSE \E j \in RepliesTo(i) :
                   /\ RepliesTo(i) = {j}
                   /\ origin[j].by = c
                   /\ IdPos(j) > IdPos(i)
                   /\ messages[IdPos(j)].sender = "bot"
                   /\ ~messages[IdPos(j)].read
                   /\ messages[IdPos(j)].status = "delivered"
                   /\ messages[IdPos(j)].type = BranchType(ResponseBranch(u.content))
                   /\ PassOver(j) => Reached(j)

\* C7: the bot reply is after the user entry it answers in the log, the pass of
\* that user entry is over when the reply exists, and a connection that was sent
\* both was sent the user entry first.
C7_UserBeforeBot ==
  \A j \in 1..Len(origin) :
    origin[j].re # 0 =>
      LET i == origin[j].re IN
      /\ IdPos(i) < IdPos(j)
      /\ PassOver(i)
      /\ \A k \in Conns : \A p, q \in 1..Len(inbox[k]) :
           (inbox[k][p] = j /\ inbox[k][q] = i) => q < p

\* A connection was sent a user entry and the reply to it.
C7_Witness ==
  \E k \in Conns : \E j \in 1..Len(origin) :
    /\ origin[j].re # 0
    /\ Has(inbox[k], j)
    /\ Has(inbox[k], origin[j].re)

\* C8: while a session is suspended in receive_text or in the delay, any other
\* open session can take a "send-message" frame (appending its entry and starting
\* its broadcast), and a session inside a pass or past its delay can go on.
C8_SuspensionDoesNotBlock ==
  \A c, d \in Conns :
    (c # d /\ pc[c] \in {"recv", "sleep"}) =>
      /\ (pc[d] = "recv" /\ Alive(d) /\ Len(messages) + Owed + 2 <= MaxEntries)
           => \A frame \in SendFrames : ENABLED RecvSendMessage(d, frame)
      /\ pc[d] \in {"bcast_user", "bcast_bot"} => ENABLED BroadcastResume(d)
      /\ pc[d] = "sleep" => ENABLED BotRespond(d)

\* Session c is in its delay, and session d, whose frame came after c's, is
\* broadcasting its user entry and has sent it to c.
C8_Witness ==
  \E c, d \in Conns :
    /\ c # d
    /\ pc[c] = "sleep" /\ pc[d] = "bcast_user"
    /\ LastUserOf(d) > LastUserOf(c)
    /\ Has(inbox[c], LastUserOf(d))

\* Session c's reply j went out when c's channel was closed: c was registered
\* when j was appended, j's pass is over and did not reach c, and c has been
\* pruned.
ClosedAtReply(c, j) ==
  /\ origin[j].by = c /\ origin[j].re # 0
  /\ c \in origin[j].aud
  /\ PassOver(j)
  /\ ~Has(inbox[c], j)
  /\ ~Has(active_connections, c)

\* C9: when the channel of a session is closed by the time its delayed reply is
\* sent, the reply is in the log and reaches the other live connections, the
\* broadcast prunes the closed connection, and the session, on seeing the
\* disconnect, returns without an error.
C9_ClosedSenderEndsQuietly ==
  [][\A c \in Conns : \A j \in 1..Len(origin) :
       (RecvDisconnect(c) /\ ClosedAtReply(c, j)) =>
         /\ Reached(j)
         /\ pc'[c] = "returned"
         /\ exc'[c] = "none"]_vars

\* The last n entries of log, oldest first.
LastN(log, n) == SubSeq(log, Len(log) - n + 1, Len(log))

\* C10: for every log and every limit n >= 0 the recent-messages query returns
\* the last min(n, total) entries of the log, oldest first.
C10_RecentReturnsLastN ==
  reply.route = "messages" =>
    reply.body = LastN(messages, Min(reply.limit, Len(messages)))

\* The number of entries of log that the bot sent and nobody has read.
RECURSIVE BotUnread(_)
BotUnread(log) ==
  IF log = <<>> THEN 0
  ELSE BotUnread(Tail(log))
         + (IF Head(log).sender = "bot" /\ Head(log).read = FALSE THEN 1 ELSE 0)

\* The entries of log that are not user entries, in order.
RECURSIVE WithoutUser(_)
WithoutUser(log) ==
  IF log = <<>> THEN <<>>
  ELSE IF Head(log).sender = "user" THEN WithoutUser(Tail(log))
       ELSE <<Head(log)>> \o WithoutUser(Tail(log))

\* C11: on every log that user messages, bot replies and notifications build, the
\* unread-count query returns the number of entries with sender bot and read
\* false; the user entries of the log add nothing to it.
C11_UnreadCountsBotUnread ==
  reply.route = "unread" =>
    /\ reply.unread = BotUnread(messages)
    /\ reply.unread = BotUnread(WithoutUser(messages))

\* The unread count was asked on a log that holds a user entry, the reply to it
\* and a notification.
C11_Witness ==
  /\ reply.route = "unread"
  /\ \E i, j, k \in 1..Len(messages) :
       /\ messages[i].sender = "user"
       /\ messages[j].sender = "bot" /\ messages[j].metadata = NoMetadata
       /\ messages[k].sender = "bot" /\ messages[k].metadata # NoMetadata

\* kw is in text, whatever the case of the letters of text.
InAnyCase(text, kw) ==
  \E i \in 1..(Len(text) - Len(kw) + 1) :
    \A j \in 1..Len(kw) : LowerChar(text[i + j - 1]) = kw[j]

\* Rule k of the responder applies to text.
RuleMatches(k, text) ==
  CASE k = 1 -> InAnyCase(text, K_build) \/ InAnyCase(text, K_status)
    [] k = 2 -> InAnyCase(text, K_erro) \/ InAnyCase(text, K_fail)
    [] k = 3 -> InAnyCase(text, K_sucesso) \/ InAnyCase(text, K_success)
    [] k = 4 -> InAnyCase(text, K_help) \/ InAnyCase(text, K_ajuda)
                  \/ \E i \in 1..Len(text) : text[i] = "?"
    [] OTHER -> TRUE

\* The lowest-numbered rule that applies to text.
FirstRule(text) ==
  CHOOSE k \in 1..5 : RuleMatches(k, text) /\ \A m \in 1..(k - 1) : ~RuleMatches(m, text)

RuleKind(k) ==
  CASE k = 1 -> "notification" [] k = 2 -> "alert" [] k = 3 -> "success"
    [] OTHER -> "text"

\* C12: the reply to a text has the kind of the lowest-numbered rule the text
\* matches (build/status, erro/fail, sucesso/success, help/ajuda/?, default),
\* with the help template for rule 4 and the default template for rule 5,
\* whatever the log and the registry hold.
C12_FirstMatchingRule ==
  \A j \in 1..Len(origin) :
    origin[j].re # 0 =>
      LET text == messages[IdPos(origin[j].re)].content
          e == messages[IdPos(j)]
          k == FirstRule(text)
      IN /\ e.type = RuleKind(k)
         /\ (e.content = <<"template:help">>) <=> (k = 4)
         /\ (e.content = <<"template:default">>) <=> (k = 5)

\* The responder replied to a text that matches rule 1 and rule 2.
C12_Witness ==
  \E j \in 1..Len(origin) :
    /\ origin[j].re # 0
    /\ RuleMatches(1, messages[IdPos(origin[j].re)].content)
    /\ RuleMatches(2, messages[IdPos(origin[j].re)].content)

\* The kind an ingested status is shown with.
StatusKind(status) ==
  IF status = "failure" THEN "alert"
  ELSE IF status = "success" THEN "success"
  ELSE "notification"

\* C13: ingesting a notification appends exactly one entry, with sender bot,
\* read false, status delivered, the buildId and workflow of the notification as
\* metadata, the kind alert for status failure, success for success and
\* notification for any other status, and a placeholder for each missing detail.
C13_IngestAppendsBotEntry ==
  [][\A r \in Reqs : \A n \in AllNotifications :
       NotifyBuild(r, n) =>
         /\ Len(messages') = Len(messages) + 1
         /\ SubSeq(messages', 1, Len(messages)) = messages
         /\ LET e == messages'[Len(messages')] IN
            /\ e.sender = "bot" /\ e.read = FALSE /\ e.status = "delivered"
            /\ e.metadata = {[buildId |-> n.buildId, workflow |-> n.workflow]}
            /\ e.type = StatusKind(n.status)
            /\ "duration" \notin DOMAIN n.details => e.content[5] = "N/A"
            /\ "coverage" \notin DOMAIN n.details => e.content[8] = "0"]_vars

\* A cancelled build with no details was ingested while a connection was
\* registered: its entry is in the log as a notification.
C13_Witness ==
  \E i \in 1..Len(messages) :
    /\ messages[i].metadata # NoMetadata
    /\ messages[i].content[3] = "CANCELLED"
    /\ messages[i].content[5] = "N/A"
    /\ origin[i].aud # {}

\* C14: an ingest that has begun has appended its entry and does not end with an
\* error: with no connection registered, with sends that fail, with detail
\* fields missing, and with sessions disconnecting or broadcasting while its pass
\* is suspended, it goes on to return its acknowledgement.
C14_IngestAlwaysAcknowledges ==
  \A r \in Reqs :
    pc[r] # "pending" =>
      /\ \E i \in 1..Len(origin) : origin[i].by = r /\ messages[IdPos(i)].sender = "bot"
      /\ pc[r] \in {"bcast_notify", "returned"}
      /\ exc[r] = "none"

\* C15: a session waiting in receive_text takes a well-formed frame of any type
\* but "send-message", or of no type, and no such step changes anything: the
\* log, the registry, the inboxes, the passes and every session are as before,
\* and the session is again waiting for a frame.
C15_OtherFrameIsNoOp ==
  \A c \in Conns : \A frame \in OtherFrames :
    (pc[c] = "recv" /\ Alive(c) /\ LoopFree(c)) =>
      /\ ENABLED RecvOther(c, frame)
      /\ ~ENABLED (RecvOther(c, frame) /\ vars' # vars)

\* A session that has a reply in the log and the other session in its delay is
\* waiting for a frame and can take one that is not "send-message".
C15_Witness ==
  \E c, d \in Conns :
    /\ c # d
    /\ pc[c] = "recv" /\ Alive(c) /\ pc[d] = "sleep"
    /\ \E j \in 1..Len(origin) : origin[j].by = c /\ origin[j].re # 0
    /\ ENABLED RecvOther(c, PingFrame)
    /\ ENABLED RecvOther(c, UntypedFrame)

\* Sequence a is the beginning of sequence b.
IsPrefix(a, b) == Len(a) <= Len(b) /\ SubSeq(b, 1, Len(a)) = a

\* C16: the log is append-only.  Every step of a session, of a reply, of an
\* ingest, of a pass and of a disconnect leaves the log before it as the
\* beginning of the log after it, and in every state neither query route has a
\* step that changes the log.
C16_LogAppendOnly ==
  /\ [][IsPrefix(messages, messages')]_vars
  /\ [](/\ \A limit \in Limits : ~ENABLED (GetMessages(limit) /\ messages' # messages)
        /\ ~ENABLED (GetUnread /\ messages' # messages))

\* The log is full: it holds a user entry, a reply and a notification, and a
\* session has disconnected and returned.
C16_Witness ==
  /\ Len(messages) = MaxEntries
  /\ \E i, j, k \in 1..Len(messages) :
       /\ messages[i].sender = "user"
       /\ origin[j].re # 0
       /\ messages[k].metadata # NoMetadata
  /\ \E c \in Conns : pc[c] = "returned"

\* Session c ended on a frame that is not a JSON object, and nothing else went
\* wrong from outside: no other session had such a frame and no client closed.
OnlyBadInput(c) ==
  /\ exc[c] \in {"JSONDecodeError", "AttributeError"}
  /\ \A k \in Conns \ {c} :
       /\ exc[k] \notin {"JSONDecodeError", "AttributeError"}
       /\ chan[k] # "peer_closed"
  /\ chan[c] # "peer_closed"

\* C17: a bad frame on one connection leaves every other connection alone: each
\* other connection that completed its handshake stays registered, its session
\* does not end, and it is sent every entry that was appended while it was
\* registered, once the pass of the entry is over.
C17_BadInputIsContained ==
  \A c \in Conns :
    OnlyBadInput(c) =>
      \A d \in Conns \ {c} :
        /\ pc[d] # "connecting" => Has(active_connections, d)
        /\ pc[d] \notin Ended
        /\ \A e \in 1..Len(origin) :
             (d \in origin[e].aud /\ PassOver(e)) => Has(inbox[d], e)

\* The user entries session c appended.
UserEntriesOf(c) == {i \in 1..Len(origin) : origin[i].by = c /\ origin[i].re = 0}

\* User entry u was answered before position before of the log: its one reply is
\* between the two, was appended by the same session, and its pass is over.
AnsweredBefore(u, before) ==
  \E j \in RepliesTo(u) :
    /\ RepliesTo(u) = {j}
    /\ origin[j].by = origin[u].by
    /\ IdPos(u) < IdPos(j) /\ IdPos(j) < before
    /\ PassOver(u) /\ PassOver(j)

\* C18: a session handles one frame at a time.  When it has appended a user
\* entry, every earlier user entry of the same session was answered before it,
\* the pass of the answer over; when it is waiting for a frame, every user entry
\* of its own is answered; and from its user entry until the pass of the answer
\* is over it takes no frame.
C18_OneFrameAtATime ==
  \A c \in Conns :
    /\ \A u, v \in UserEntriesOf(c) : IdPos(u) < IdPos(v) => AnsweredBefore(u, IdPos(v))
    /\ pc[c] = "recv" => \A u \in UserEntriesOf(c) : AnsweredBefore(u, Len(messages) + 1)
    /\ pc[c] \in {"bcast_user", "sleep", "bcast_bot"} =>
         /\ \A frame \in SendFrames : ~ENABLED RecvSendMessage(c, frame)
         /\ \A frame \in OtherFrames : ~ENABLED RecvOther(c, frame)
         /\ ~ENABLED RecvMalformed(c) /\ ~ENABLED RecvNotObject(c)

\* A session has appended two user entries and is handling the second, and
\* another connection was sent the first, its answer and the second.
C18_Witness ==
  \E c, d \in Conns : \E u, v \in UserEntriesOf(c) :
    /\ c # d
    /\ IdPos(u) < IdPos(v)
    /\ pc[c] \in {"bcast_user", "sleep", "bcast_bot"}
    /\ Has(inbox[d], u) /\ Has(inbox[d], v)
    /\ \E j \in RepliesTo(u) : Has(inbox[d], j)

\* C19: no connection is sent the frame of the same entry twice, and every frame
\* sent carries an entry that is in the log, whatever registrations and removals
\* run while passes are suspended.
C19_AtMostOnceDelivery ==
  \A k \in Conns :
    /\ \A p, q \in 1..Len(inbox[k]) : inbox[k][p] = inbox[k][q] => p = q
    /\ \A p \in 1..Len(inbox[k]) : \E i \in 1..Len(messages) : messages[i].id = inbox[k][p]

\* A pass is suspended with a connection sent to, a connection registered since
\* the pass began, and a connection removed since it began.
C19_Witness ==
  \E t \in Tasks : \E k \in Conns :
    /\ pc[t] \in BcastLabels
    /\ Has(inbox[k], pass[t].msg)
    /\ \E j \in Conns : Has(active_connections, j) /\ j \notin origin[pass[t].msg].aud
    /\ \E j \in origin[pass[t].msg].aud : ~Has(active_connections, j)

\* C20: the registry never holds a connection twice and holds only connections
\* past their handshake; a step that adds a connection to the registry is the
\* step that completes that connection's handshake, and it adds nothing else.
C20_RegisteredOnceAtHandshake ==
  /\ [](/\ \A p, q \in 1..Len(active_connections) :
             active_connections[p] = active_connections[q] => p = q
        /\ \A c \in Conns : Has(active_connections, c) => pc[c] # "connecting")
  /\ [][\A c \in Conns :
          (Has(active_connections', c) /\ ~Has(active_connections, c)) =>
            /\ pc[c] = "connecting" /\ pc'[c] = "recv"
            /\ active_connections' = Append(active_connections, c)]_vars

\* A connection registered and was removed, the other is registered, and a pass
\* is suspended.
C20_Witness ==
  \E c, d \in Conns : \E t \in Tasks :
    /\ pc[c] \notin {"connecting"} /\ ~Has(active_connections, c)
    /\ Has(active_connections, d)
    /\ pc[t] \in BcastLabels

====
